---------------------------- MODULE Spec2Model ----------------------------
(***************************************************************************)
(* Model of the enrichment tab of src/app.py (Gconverter): the identifier  *)
(* bridge, the evidence decoder, the manual override, the result cache in   *)
(* st.session_state and the similarity-based reducer.                       *)
(*                                                                          *)
(* Python values are represented as follows.                                *)
(*   str        a sequence of one-character strings, <<"A","B">> for "AB"   *)
(*   list       a sequence                                                  *)
(*   a cell that may be a list, a str, an int, None or missing: a record    *)
(*              [kind, l, s, n]                                             *)
(*   float p_value   its rank as a positive integer (only the order of      *)
(*                   p-values is read)                                      *)
(*   float similarity  the exact quotient [num, den]                        *)
(*   threshold  hundredths (the slider of line 235 moves in steps of 0.01)  *)
(***************************************************************************)
EXTENDS Integers, Sequences, FiniteSets

VARIABLES
    widgets,        \* the input widgets of tab 2 (lines 117-131, 234-235)
    env,            \* what the two remote services answer to the last run block
    locals,         \* script variables of the last run block (lines 128-165)
    message,        \* what the last run block reported (st.error, st.warning,
                    \* st.success), "none" when it reported nothing
    session_state,  \* st.session_state['raw_results'] (lines 135-136, 217)
    df_processed,   \* the table the display block shows (lines 225-241)
    script,         \* where the script run stands: idle, or the line it is
                    \* about to execute; whether it is inside the run block
                    \* (lines 133-223); whether an event has asked for a
                    \* rerun meanwhile, and whether that event is a click on
                    \* "Run Analysis"; the line at which the last run block
                    \* was stopped ("no": it was not)
    call,           \* a helper function called on its own: name and arguments
    ret             \* and what it returned

vars ==
    <<widgets, env, locals, message, session_state, df_processed, script,
      call, ret>>

----------------------------------------------------------------------------
(* Bounds of the model.                                                     *)

\* Longest argument list handed to calculate_jaccard on its own.
MaxListLen == 3
\* Most rows of a table handed to simplify_results on its own.
MaxTableRows == 3
\* Longest Evidence Vector handed to the decoder on its own.
MaxVecLen == 3
\* Most result rows in a service response of a modelled run.
MaxRespRows == 2

\* sim_threshold is held in hundredths: st.slider(..., 0.1, 1.0, 0.7).
ThresholdScale == 100
\* The default threshold of simplify_results and of the slider, 0.7.
DefaultThreshold == 70

----------------------------------------------------------------------------
(* Python helpers.                                                          *)

Range(s) == {s[i] : i \in 1..Len(s)}

SeqsUpTo(S, n) == UNION {[1..k -> S] : k \in 0..n}

IsInjective(s) == \A i, j \in 1..Len(s) : s[i] = s[j] => i = j

\* "sep".join(parts)
RECURSIVE Join(_, _)
Join(sep, parts) ==
    IF Len(parts) = 0 THEN <<>>
    ELSE IF Len(parts) = 1 THEN parts[1]
    ELSE parts[1] \o sep \o Join(sep, Tail(parts))

\* sub in s, for two str
IsSubstring(sub, s) ==
    \E i \in 0..(Len(s) - Len(sub)) :
        \A k \in 1..Len(sub) : s[i + k] = sub[k]

\* The separator "; " of lines 177 and 208.
Sep == <<";", " ">>

----------------------------------------------------------------------------
(* calculate_jaccard, lines 33-37.  The quotient is kept exact; den = 0     *)
(* stands for the ZeroDivisionError of len(..) / 0.                         *)

calculate_jaccard_noguard(list1, list2) ==
    LET s1 == Range(list1)
        s2 == Range(list2)
    IN  [num |-> Cardinality(s1 \cap s2), den |-> Cardinality(s1 \cup s2)]

calculate_jaccard(list1, list2) ==
    LET s1 == Range(list1)
        s2 == Range(list2)
    IN  IF s1 = {} \/ s2 = {} THEN [num |-> 0, den |-> 1]
        ELSE [num |-> Cardinality(s1 \cap s2), den |-> Cardinality(s1 \cup s2)]

\* sim > threshold (line 50), threshold in hundredths
ExceedsThreshold(sim, threshold) ==
    sim.num * ThresholdScale > threshold * sim.den

----------------------------------------------------------------------------
(* simplify_results, lines 39-55.  A DataFrame is [columns, rows]; a row    *)
(* carries its index label in the field index.                              *)

IsSortedByP(rows) ==
    \A i \in 1..(Len(rows) - 1) : rows[i].p_value <= rows[i + 1].p_value

\* the sort left out: the rows stay in the order given
sort_values_unsorted(rows) == {rows}

\* the orders a sort by p_value can give: a row of the least p_value first,
\* then the others in such an order
RECURSIVE sorted_orders(_)
sorted_orders(rows) ==
    IF Len(rows) = 0 THEN {<<>>}
    ELSE UNION {{<<rows[i]>> \o rest :
                    rest \in sorted_orders(SubSeq(rows, 1, i - 1)
                                           \o SubSeq(rows, i + 1, Len(rows)))} :
                i \in {j \in 1..Len(rows) :
                          \A k \in 1..Len(rows) :
                              rows[j].p_value <= rows[k].p_value}}

\* df.sort_values('p_value'): the default kind is quicksort, which is not
\* stable, so rows of equal p_value may come out in any order.
sort_values(rows) == sorted_orders(rows)

\* lines 46-52: the inner loop over keep_indices, with its break
is_redundant_geq(current_genes, keep_indices, genes_list, threshold) ==
    \E k \in 1..Len(keep_indices) :
        LET sim == calculate_jaccard(current_genes, genes_list[keep_indices[k]])
        IN  sim.num * ThresholdScale >= threshold * sim.den

is_redundant(current_genes, keep_indices, genes_list, threshold) ==
    \E k \in 1..Len(keep_indices) :
        ExceedsThreshold(
            calculate_jaccard(current_genes, genes_list[keep_indices[k]]),
            threshold)

\* lines 42-54: the loop over range(len(df)), from position i on; positions
\* count from 1 here, so keep_indices holds Python's indices plus one
RECURSIVE keep_loop(_, _, _, _)
keep_loop(genes_list, threshold, i, keep_indices) ==
    IF i > Len(genes_list) THEN keep_indices
    ELSE keep_loop(genes_list, threshold, i + 1,
            IF is_redundant(genes_list[i], keep_indices, genes_list, threshold)
            THEN keep_indices
            ELSE Append(keep_indices, i))

\* df.iloc[keep_indices]
iloc(rows, keep_indices) ==
    [k \in 1..Len(keep_indices) |-> rows[keep_indices[k]]]

\* the rows simplify_results returns for one outcome of the sort
simplify_sorted(sorted, threshold) ==
    iloc(sorted,
         keep_loop([i \in 1..Len(sorted) |-> sorted[i].intersections_raw],
                   threshold, 1, <<>>))

\* simplify_results(df, threshold): the set of tables it can return
simplify_results(rows, threshold) ==
    IF Len(rows) = 0 THEN {rows}
    ELSE {simplify_sorted(sorted, threshold) : sorted \in sort_values(rows)}


----------------------------------------------------------------------------
(* Cells of the service responses: a JSON value that may be a list (l), a   *)
(* str (s), an int (n), null, or a key that is not there.                   *)

PyList(l) == [kind |-> "list", l |-> l, s |-> <<>>, n |-> 0]
PyNone == [kind |-> "None", l |-> <<>>, s |-> <<>>, n |-> 0]
PyMissing == [kind |-> "missing", l |-> <<>>, s |-> <<>>, n |-> 0]
PyStr(s) == [kind |-> "str", l |-> <<>>, s |-> s, n |-> 0]
PyInt(n) == [kind |-> "int", l |-> <<>>, s |-> <<>>, n |-> n]

DigitChars == <<"0", "1", "2", "3", "4", "5", "6", "7", "8", "9">>

\* str(n) for an int n >= 0
RECURSIVE IntToStr(_)
IntToStr(n) ==
    IF n < 10 THEN <<DigitChars[n + 1]>>
    ELSE IntToStr(n \div 10) \o <<DigitChars[(n % 10) + 1]>>

\* str(item['entrezgene']), line 146: the service gives an int or a str
str(cell) == IF cell.kind = "int" THEN IntToStr(cell.n) ELSE cell.s

\* x.strip(), for the whitespace the model writes: " "
RECURSIVE lstrip(_)
lstrip(s) == IF Len(s) > 0 /\ s[1] = " " THEN lstrip(Tail(s)) ELSE s

RECURSIVE rstrip(_)
rstrip(s) ==
    IF Len(s) > 0 /\ s[Len(s)] = " " THEN rstrip(SubSeq(s, 1, Len(s) - 1)) ELSE s

strip(s) == rstrip(lstrip(s))

\* text.split('\n'): the lines of text from position i on, cur the line so far
RECURSIVE split_lines(_, _, _)
split_lines(text, i, cur) ==
    IF i > Len(text) THEN <<cur>>
    ELSE IF text[i] = "\n" THEN <<cur>> \o split_lines(text, i + 1, <<>>)
    ELSE split_lines(text, i + 1, Append(cur, text[i]))

\* line 134: [x.strip() for x in raw_text_enrich.split('\n') if x.strip()]
raw_gene_list(raw_text_enrich) ==
    LET lines == split_lines(raw_text_enrich, 1, <<>>)
        stripped == [i \in 1..Len(lines) |-> strip(lines[i])]
    IN  SelectSeq(stripped, LAMBDA x : x # <<>>)

----------------------------------------------------------------------------
(* Identifier bridge, lines 140-150.                                        *)

\* item.get('symbol', item.get('query', eid)), line 147
symbol_of(item) ==
    IF item.symbol.kind # "missing" THEN item.symbol.s
    ELSE IF item.query.kind # "missing" THEN item.query.s
    ELSE str(item.entrezgene)

\* lines 142-149: converted_ids after the items from position i on
RECURSIVE converted_ids_loop(_, _, _)
converted_ids_loop(map_res, i, converted_ids) ==
    IF i > Len(map_res) THEN converted_ids
    ELSE converted_ids_loop(map_res, i + 1,
            IF map_res[i].entrezgene.kind # "missing"
            THEN Append(converted_ids, str(map_res[i].entrezgene))
            ELSE converted_ids)

\* lines 143-149: entrez_to_symbol; a later item overwrites an earlier one
RECURSIVE entrez_to_symbol_loop(_, _, _)
entrez_to_symbol_loop(map_res, i, entrez_to_symbol) ==
    IF i > Len(map_res) THEN entrez_to_symbol
    ELSE entrez_to_symbol_loop(map_res, i + 1,
            IF map_res[i].entrezgene.kind # "missing"
            THEN LET eid == str(map_res[i].entrezgene)
                 IN  [k \in (DOMAIN entrez_to_symbol) \cup {eid} |->
                        IF k = eid THEN symbol_of(map_res[i])
                        ELSE entrez_to_symbol[k]]
            ELSE entrez_to_symbol)

EmptyDict == [k \in {} |-> <<>>]

\* list(converted_ids) in place of list(set(converted_ids)): duplicates stay
unique_converted_ids_nodedup(converted_ids) == {converted_ids}

\* line 150, list(set(converted_ids)): the order of a set of str is not
\* fixed, so every duplicate-free listing of the set is a possible outcome
unique_converted_ids(converted_ids) ==
    LET S == Range(converted_ids)
    IN  {s \in [1..Cardinality(S) -> S] : IsInjective(s)}

----------------------------------------------------------------------------
(* Evidence decoder, lines 171-184.  idx is Python's 0-based position: the  *)
(* marker inter_list[idx] is items[idx + 1] here.                           *)

\* entrez_to_symbol.get(key, default)
dict_get(d, key, default) == IF key \in DOMAIN d THEN d[key] ELSE default

\* `if evidences`: a non-empty list of evidence codes is true
Truthy(evidences) == Len(evidences) > 0

\* lines 173-176 with unique_converted_ids[idx + 1] read: one position late
RECURSIVE decode_loop_shifted(_, _, _, _, _)
decode_loop_shifted(items, ids, entrez_to_symbol, idx, hit_genes) ==
    IF idx >= Len(items) THEN hit_genes
    ELSE decode_loop_shifted(items, ids, entrez_to_symbol, idx + 1,
            IF Truthy(items[idx + 1]) /\ idx + 1 < Len(ids)
            THEN Append(hit_genes,
                        dict_get(entrez_to_symbol, ids[idx + 2], ids[idx + 2]))
            ELSE hit_genes)

\* lines 173-176
RECURSIVE decode_loop(_, _, _, _, _)
decode_loop(items, ids, entrez_to_symbol, idx, hit_genes) ==
    IF idx >= Len(items) THEN hit_genes
    ELSE decode_loop(items, ids, entrez_to_symbol, idx + 1,
            IF Truthy(items[idx + 1]) /\ idx < Len(ids)
            THEN Append(hit_genes,
                        dict_get(entrez_to_symbol, ids[idx + 1], ids[idx + 1]))
            ELSE hit_genes)

\* decode_intersections, lines 171-177
decode_intersections(inter_list, ids, entrez_to_symbol) ==
    IF inter_list.kind # "list" THEN <<>>
    ELSE Join(Sep, decode_loop(inter_list.l, ids, entrez_to_symbol, 0, <<>>))

\* lines 180-183
RECURSIVE ids_loop(_, _, _, _)
ids_loop(items, ids, idx, out) ==
    IF idx >= Len(items) THEN out
    ELSE ids_loop(items, ids, idx + 1,
            IF Truthy(items[idx + 1]) /\ idx < Len(ids)
            THEN Append(out, ids[idx + 1])
            ELSE out)

\* get_entrez_ids_list, lines 179-184.  There is no isinstance test: the
\* loop enumerates whatever the cell holds.  A str is enumerated character
\* by character and every character is true, so the first len(str)
\* identifiers come out; None, a float (the NaN of an absent key) and an
\* int cannot be enumerated and raise TypeError.
get_entrez_ids_list(inter_list, ids) ==
    IF inter_list.kind = "list"
    THEN [raised |-> FALSE, v |-> ids_loop(inter_list.l, ids, 0, <<>>)]
    ELSE IF inter_list.kind = "str"
    THEN [raised |-> FALSE,
          v |-> SubSeq(ids, 1, IF Len(inter_list.s) < Len(ids)
                               THEN Len(inter_list.s) ELSE Len(ids))]
    ELSE [raised |-> TRUE, v |-> <<>>]


----------------------------------------------------------------------------
(* Manual override, lines 203-211.  native and force_pathway_id are only    *)
(* compared for equality and tested for emptiness, so they are atoms ("" is *)
(* the empty text); force_gene and hit_genes are str.                       *)

\* append_gene, lines 206-208
append_gene(current_hits, force_gene) ==
    IF IsSubstring(force_gene, current_hits) THEN current_hits
    ELSE IF current_hits # <<>> THEN current_hits \o Sep \o force_gene
    ELSE force_gene

\* the override with the mask of line 204 dropped: every row is forced
apply_override_nomask(rows, force_gene, force_pathway_id) ==
    IF force_gene # <<>> /\ force_pathway_id # ""
    THEN [i \in 1..Len(rows) |->
            [rows[i] EXCEPT !.hit_genes = append_gene(@, force_gene),
                            !.intersection_size = @ + 1]]
    ELSE rows

\* lines 203-210: both columns are written through the mask; the count is
\* incremented on every masked row, whatever append_gene returned
apply_override(rows, force_gene, force_pathway_id) ==
    IF force_gene # <<>> /\ force_pathway_id # ""
    THEN LET mask == [i \in 1..Len(rows) |-> rows[i].native = force_pathway_id]
         IN  IF \E i \in 1..Len(rows) : mask[i]
             THEN [i \in 1..Len(rows) |->
                    IF mask[i]
                    THEN [rows[i] EXCEPT
                            !.hit_genes = append_gene(@, force_gene),
                            !.intersection_size = @ + 1]
                    ELSE rows[i]]
             ELSE rows
    ELSE rows

----------------------------------------------------------------------------
(* Result assembly, lines 167-217.                                          *)

BaseColumns == {"native", "p_value", "intersection_size", "neg_log10_p"}
DecodedColumns == {"hit_genes", "intersections_raw", "KEGG_Highlighted_Map"}

EmptyDF == [columns |-> {}, rows |-> <<>>]

\* pd.DataFrame(raw_results['result']), line 168: the index is 0..n-1, and a
\* column exists when at least one row has the key
DataFrame(result) ==
    [columns |-> BaseColumns \cup
        (IF \E i \in 1..Len(result) : result[i].intersections.kind # "missing"
         THEN {"intersections"} ELSE {}),
     rows |-> [i \in 1..Len(result) |->
        [index |-> i - 1,
         native |-> result[i].native,
         p_value |-> result[i].p_value,
         intersection_size |-> result[i].intersection_size,
         intersections |-> result[i].intersections,
         hit_genes |-> <<>>,
         intersections_raw |-> <<>>]]]

\* lines 200-201: the two .apply(...) calls
decode_rows(rows, ids, entrez_to_symbol) ==
    [i \in 1..Len(rows) |->
        [rows[i] EXCEPT
            !.hit_genes = decode_intersections(rows[i].intersections, ids,
                                               entrez_to_symbol),
            !.intersections_raw = get_entrez_ids_list(rows[i].intersections,
                                                      ids).v]]

\* line 201 raises when get_entrez_ids_list raises on some row
decode_raises(rows, ids) ==
    \E i \in 1..Len(rows) : get_entrez_ids_list(rows[i].intersections, ids).raised

\* line 215: results['intersections'] = results['hit_genes']
show_hits(rows) ==
    [i \in 1..Len(rows) |-> [rows[i] EXCEPT !.intersections = PyStr(rows[i].hit_genes)]]

\* lines 168-215: [raised, df], the table handed to line 217
assemble(result, ids, entrez_to_symbol, force_gene, force_pathway_id) ==
    LET results == DataFrame(result)
    IN  IF "intersections" \notin results.columns
        THEN [raised |-> FALSE, df |-> results]
        ELSE IF decode_raises(results.rows, ids)
        THEN [raised |-> TRUE, df |-> EmptyDF]
        ELSE [raised |-> FALSE,
              df |-> [columns |-> results.columns \cup DecodedColumns,
                      rows |-> show_hits(
                          apply_override(
                              decode_rows(results.rows, ids, entrez_to_symbol),
                              force_gene, force_pathway_id))]]

----------------------------------------------------------------------------
(* The run block, lines 133-223, and the display block, lines 225-375.      *)
(*                                                                          *)
(* A script run is not one step.  The page is served while the script       *)
(* runs: an event may arrive at any moment of the run, and asks for a       *)
(* rerun.  The script is then stopped at the next point where Streamlit     *)
(* looks for a pending rerun: an access to st.session_state (three at line  *)
(* 136: `in`, `del`, `in`; lines 217 and 225) or an st.* call (lines 138,   *)
(* 153, 211, 218, 220, 223, and those of the display block).  It is stopped *)
(* by a control exception, which is not an Exception and so passes the      *)
(* handler of line 222, and the script is run again: with run_enrich False  *)
(* after a widget event, with run_enrich True after a click on the button.  *)
(* The rerun is a script run like any other and can be stopped in turn.     *)
(* The calls of lines 141 and 164 wait for a service and are no such point. *)
(* script.pc is the line the script is about to execute, or waits at; line  *)
(* 136 has one position for each of its accesses.                           *)

MsgNone == "none"
MsgNoIds == "No valid IDs identified."
MsgDone == "Analysis Done."
MsgNoPathways == "No significant pathways found."
MsgError == "Error"

NoSession == [keys |-> {}, raw_results |-> EmptyDF]

\* the deletion of lines 135-136 left out
clear_results_keep(state) == state

\* lines 135-136: del st.session_state[key]
clear_results(state) == NoSession

\* line 217
store_results(df) == [keys |-> {"raw_results"}, raw_results |-> df]

\* started: the run block was entered; deleted: the test of line 136 found
\* 'raw_results' in st.session_state and the del of line 136 was executed
NoLocals ==
    [started |-> FALSE, deleted |-> FALSE,
     raw_gene_list |-> <<>>, force_gene |-> <<>>, force_pathway_id |-> "",
     unique_converted_ids |-> <<>>, entrez_to_symbol |-> EmptyDict,
     request |-> <<>>, results |-> EmptyDF]

\* script.stopped when the last run of the run block was not stopped
NoStop == "no"

Idle ==
    [pc |-> "idle", run_block |-> FALSE, rerun_requested |-> FALSE,
     clicked |-> FALSE, stopped |-> NoStop]

\* lines 142-164, once mg.querymany has answered: the script variables and
\* the line the script comes to, st.error (153, 223) or the call of line 164
querymany_returns(loc, e) ==
    IF e.mygene.raises
    THEN {[locals |-> loc, pc |-> "line223"]}
    ELSE LET converted_ids == converted_ids_loop(e.mygene.items, 1, <<>>)
             entrez_to_symbol ==
                 entrez_to_symbol_loop(e.mygene.items, 1, EmptyDict)
         IN  {[locals |-> [loc EXCEPT
                             !.unique_converted_ids = ids,
                             !.entrez_to_symbol = entrez_to_symbol,
                             !.request = IF ids = <<>> THEN <<>> ELSE <<ids>>],
               pc |-> IF ids = <<>> THEN "line153" ELSE "line164"] :
              ids \in unique_converted_ids(converted_ids)}

\* lines 199 and 203-205: st.toast (211) is reached when the table has the
\* column, both override fields are filled and mask.any()
toasts(result, force_gene, force_pathway_id) ==
    /\ \E i \in 1..Len(result) : result[i].intersections.kind # "missing"
    /\ force_gene # <<>>
    /\ force_pathway_id # ""
    /\ \E i \in 1..Len(result) : result[i].native = force_pathway_id

\* lines 165-215, once requests.post has answered: the table `results` and
\* the line the script comes to: st.toast (211), the store (217), st.warning
\* (220) or st.error (223)
post_returns(loc, e) ==
    IF e.gprofiler.raises THEN {[results |-> EmptyDF, pc |-> "line223"]}
    ELSE IF e.gprofiler.has_result /\ e.gprofiler.result # <<>>
    THEN LET a == assemble(e.gprofiler.result, loc.unique_converted_ids,
                           loc.entrez_to_symbol, loc.force_gene,
                           loc.force_pathway_id)
         IN  IF a.raised THEN {[results |-> EmptyDF, pc |-> "line223"]}
             ELSE {[results |-> a.df,
                    pc |-> IF toasts(e.gprofiler.result, loc.force_gene,
                                     loc.force_pathway_id)
                           THEN "line211" ELSE "line217"]}
    ELSE {[results |-> EmptyDF, pc |-> "line220"]}

\* what the call at a line reports
message_at(pc) ==
    CASE pc = "line153" -> MsgNoIds
      [] pc = "line218" -> MsgDone
      [] pc = "line220" -> MsgNoPathways
      [] pc = "line223" -> MsgError

\* lines 225-248: what the display block makes of the stored table
display_block(state, w) ==
    IF "raw_results" \notin state.keys
    THEN {[status |-> "hidden", rows |-> <<>>]}
    ELSE LET df_raw == state.raw_results
         IN  IF w.use_simplify
             THEN IF "intersections_raw" \notin df_raw.columns
                  THEN {[status |-> "KeyError", rows |-> <<>>]}
                  ELSE {[status |-> "shown", rows |-> r] :
                        r \in simplify_results(df_raw.rows, w.sim_threshold)}
             ELSE {[status |->
                        IF "KEGG_Highlighted_Map" \in df_raw.columns
                        THEN "shown" ELSE "KeyError",
                    rows |-> df_raw.rows]}

\* lines 225 and 234-235: the checkbox and the slider are created inside the
\* `if`; a script run that ends without creating them loses their state,
\* and they come back with value=False and 0.7
forget_unrendered(w, shown) ==
    IF shown.status = "hidden"
    THEN [w EXCEPT !.use_simplify = FALSE, !.sim_threshold = DefaultThreshold]
    ELSE w

NoCall == [fn |-> "none", args |-> <<>>]

\* The control exception at an st.* call or an st.session_state access: the
\* script ends there and is run again from its first line.  After a widget
\* event the rerun has run_enrich False and comes to the display block
\* (line 225); after a click it has run_enrich True (line 131).  Nothing
\* the script has drawn or stored so far changes, and the state of the
\* widgets is kept: a run that is stopped forgets none.
Stop ==
    /\ script.rerun_requested
    /\ script' = [pc |-> IF script.clicked THEN "line131" ELSE "line225",
                  run_block |-> FALSE,
                  rerun_requested |-> FALSE,
                  clicked |-> FALSE,
                  stopped |-> IF script.run_block THEN script.pc
                              ELSE script.stopped]
    /\ UNCHANGED <<widgets, message, locals, session_state, df_processed>>

\* The script goes on to another line; the page stays as it is.
Goto(pc) ==
    /\ script' = [script EXCEPT !.pc = pc]
    /\ UNCHANGED <<widgets, df_processed>>

\* The script leaves the run block and comes to the display block.
Leave == script' = [script EXCEPT !.pc = "line225", !.run_block = FALSE]

\* The script has run to its end.
Finish == script' = [script EXCEPT !.pc = "idle"]

\* A click on "Run Analysis" with the text and override fields holding w,
\* the services being about to answer e, made while no script runs or
\* served by a rerun (line 131): the script up to the first access to
\* st.session_state (lines 131-136), or up to the display block when the
\* text is empty (line 133).
\* (A rerun that stops the script before line 133 leaves the click without
\* any effect on the run block: as far as the stored table and the messages
\* go, that is the stop at the first access of line 136.)
RunAnalysis(w, e) ==
    LET now == [widgets EXCEPT !.raw_text_enrich = w.raw_text_enrich,
                               !.force_gene = w.force_gene,
                               !.force_pathway_id = w.force_pathway_id]
    IN  /\ script.pc \in {"idle", "line131"}
        /\ widgets' = now
        /\ IF now.raw_text_enrich # <<>>
           THEN /\ env' = e
                /\ locals' = [NoLocals EXCEPT
                                !.started = TRUE,
                                !.raw_gene_list = raw_gene_list(now.raw_text_enrich),
                                !.force_gene = now.force_gene,
                                !.force_pathway_id = now.force_pathway_id]
                /\ message' = MsgNone
                /\ script' = [Idle EXCEPT !.pc = "line136_in_raw",
                                          !.run_block = TRUE]
           ELSE /\ script' = [script EXCEPT !.pc = "line225"]
                /\ UNCHANGED <<env, locals, message>>
        /\ UNCHANGED <<session_state, df_processed, call, ret>>

\* lines 135-136, `for key in ['raw_results', 'filtered_results']: if key in
\* st.session_state: del st.session_state[key]`: three accesses to
\* st.session_state, since nothing ever stores 'filtered_results': the test
\* of 'raw_results', its del, the test of 'filtered_results'.  Where
\* st.session_state lets a pending rerun in, the script is stopped at the
\* access, before it takes effect; where it does not, the script goes on.
DeleteKeys ==
    /\ script.pc \in {"line136_in_raw", "line136_del_raw", "line136_in_filtered"}
    /\ \/ Stop
       \/ /\ script.pc = "line136_in_raw"
          /\ Goto(IF "raw_results" \in session_state.keys
                  THEN "line136_del_raw" ELSE "line136_in_filtered")
          /\ UNCHANGED <<message, locals, session_state>>
       \/ /\ script.pc = "line136_del_raw"
          /\ locals' = [locals EXCEPT !.deleted = TRUE]
          /\ session_state' = clear_results(session_state)
          /\ Goto("line136_in_filtered")
          /\ UNCHANGED message
       \/ /\ script.pc = "line136_in_filtered"
          /\ Goto("line138")
          /\ UNCHANGED <<message, locals, session_state>>
    /\ UNCHANGED <<env, call, ret>>

\* st.spinner, line 138
Spinner ==
    /\ script.pc = "line138"
    /\ IF script.rerun_requested THEN Stop
       ELSE /\ Goto("line141")
            /\ UNCHANGED <<message, locals, session_state>>
    /\ UNCHANGED <<env, call, ret>>

\* mg.querymany answers (line 141): the script up to st.error (153, 223) or
\* to the call of line 164.
AfterQuerymany ==
    /\ script.pc = "line141"
    /\ \E out \in querymany_returns(locals, env) :
        /\ locals' = out.locals
        /\ Goto(out.pc)
    /\ UNCHANGED <<env, message, session_state, call, ret>>

\* requests.post answers (line 164): the script up to st.toast (211), the
\* store (217), st.warning (220) or st.error (223).
AfterPost ==
    /\ script.pc = "line164"
    /\ \E out \in post_returns(locals, env) :
        /\ locals' = [locals EXCEPT !.results = out.results]
        /\ Goto(out.pc)
    /\ UNCHANGED <<env, message, session_state, call, ret>>

\* st.toast, line 211
Toast ==
    /\ script.pc = "line211"
    /\ IF script.rerun_requested THEN Stop
       ELSE /\ Goto("line217")
            /\ UNCHANGED <<message, locals, session_state>>
    /\ UNCHANGED <<env, call, ret>>

\* line 217.  Where st.session_state lets a pending rerun in, the script is
\* stopped here and stores nothing; where it does not, the table is stored
\* and the script goes on to st.success.
Store ==
    /\ script.pc = "line217"
    /\ \/ Stop
       \/ /\ \E sorted \in sort_values(locals.results.rows) :
                session_state' =
                    store_results([locals.results EXCEPT !.rows = sorted])
          /\ Goto("line218")
          /\ UNCHANGED <<message, locals>>
    /\ UNCHANGED <<env, call, ret>>

\* st.error (153, 223), st.success (218), st.warning (220)
Report ==
    /\ script.pc \in {"line153", "line218", "line220", "line223"}
    /\ IF script.rerun_requested THEN Stop
       ELSE /\ message' = message_at(script.pc)
            /\ Leave
            /\ UNCHANGED <<widgets, df_processed, locals, session_state>>
    /\ UNCHANGED <<env, call, ret>>

\* lines 225-241: the test of line 225, the checkbox and the slider (234,
\* 235) and the table to show (237-241).  With a rerun pending the script
\* is stopped at the test or at the st.* call that follows it, or ends at
\* line 225 and is run again.  With nothing stored the script ends here,
\* and the widgets it did not create lose their state.  simplify_results
\* raises KeyError at line 238 on a table without 'intersections_raw',
\* which ends the script too.  Otherwise the script goes on to the st.*
\* calls that show the table.
ShowResults ==
    /\ script.pc = "line225"
    /\ IF script.rerun_requested THEN Stop
       ELSE /\ \E d \in display_block(session_state, widgets) :
                /\ df_processed' = d
                /\ IF \/ d.status = "hidden"
                      \/ d.status = "KeyError" /\ widgets.use_simplify
                   THEN /\ widgets' = forget_unrendered(widgets, d)
                        /\ Finish
                   ELSE /\ widgets' = widgets
                        /\ script' = [script EXCEPT !.pc = "line244"]
            /\ UNCHANGED <<message, locals, session_state>>
    /\ UNCHANGED <<env, call, ret>>

\* lines 239-375: the st.* calls that show the table (st.info at 239 when
\* the filter is on, st.markdown at 244, st.data_editor at 252, the chart
\* and the downloads), with the checkbox and the slider of this run on the
\* page.  The script runs to its end (or to the KeyError of line 248 on a
\* table without 'KEGG_Highlighted_Map'), or is stopped at one of the calls.
RenderResults ==
    /\ script.pc = "line244"
    /\ IF script.rerun_requested THEN Stop
       ELSE /\ Finish
            /\ UNCHANGED <<widgets, message, locals, session_state,
                           df_processed>>
    /\ UNCHANGED <<env, call, ret>>

\* A widget event while the script runs.  The checkbox and the slider are
\* on the page when this run has drawn them (lines 234-235) or an earlier
\* run has and they have not been cleared yet: they can be the widgets
\* moved.  Otherwise another widget was touched.
TouchWidget(use_simplify, sim_threshold) ==
    /\ script.pc \notin {"idle", "line131"}
    /\ ~script.rerun_requested
    /\ \/ df_processed.status # "hidden"
       \/ /\ use_simplify = widgets.use_simplify
          /\ sim_threshold = widgets.sim_threshold
    /\ widgets' = [widgets EXCEPT !.use_simplify = use_simplify,
                                  !.sim_threshold = sim_threshold]
    /\ script' = [script EXCEPT !.rerun_requested = TRUE]
    /\ UNCHANGED <<env, locals, message, session_state, df_processed, call, ret>>

\* A click on "Run Analysis" while the script runs (line 131): the rerun it
\* asks for has run_enrich True.
ClickAgain ==
    /\ script.pc \notin {"idle", "line131"}
    /\ ~script.rerun_requested
    /\ script' = [script EXCEPT !.rerun_requested = TRUE, !.clicked = TRUE]
    /\ UNCHANGED <<widgets, env, locals, message, session_state, df_processed,
                   call, ret>>

\* The similarity widgets of lines 234-235 moved while no script runs: the
\* script is run with run_enrich False, up to the display block.
Rerender(use_simplify, sim_threshold) ==
    /\ script.pc = "idle"
    /\ "raw_results" \in session_state.keys
    /\ widgets' = [widgets EXCEPT !.use_simplify = use_simplify,
                                  !.sim_threshold = sim_threshold]
    /\ script' = [script EXCEPT !.pc = "line225"]
    /\ UNCHANGED <<env, locals, message, session_state, df_processed, call, ret>>


----------------------------------------------------------------------------
(* The values the model draws inputs from.                                  *)

\* an Evidence Vector position: no evidence, or a list of evidence codes
Marks == {<<>>, <<"IEA">>}
Hit == <<"IEA">>

\* canonical identifiers and labels of the helper calls
Ids == {<<"1">>, <<"2">>, <<"3">>}
Symbols == {<<"A">>, <<"A", "B">>}

PValues == {1, 2}
\* positions of the slider of line 235 (0.1 to 1.0)
SimThresholds == {10, 50, 100}

DefaultWidgets ==
    [raw_text_enrich |-> <<>>, force_gene |-> <<>>, force_pathway_id |-> "",
     use_simplify |-> FALSE, sim_threshold |-> DefaultThreshold]

NoReply == [raises |-> FALSE, items |-> <<>>]
NoResponse == [raises |-> FALSE, has_result |-> FALSE, result |-> <<>>]
IdleEnv == [mygene |-> NoReply, gprofiler |-> NoResponse]

\* the number of non-empty positions of a vector: what a well-behaved
\* service reports as intersection_size
CountHits(v) == Cardinality({i \in 1..Len(v) : Truthy(v[i])})

\* a result row of the enrichment service; a row without a usable vector
\* still reports a count
ServiceRow(native, p, cell) ==
    [native |-> native, p_value |-> p, intersections |-> cell,
     intersection_size |-> IF cell.kind = "list" THEN CountHits(cell.l) ELSE 1]

\* the answers of the enrichment service: an exception, a body without
\* 'result', or a list of rows, each term (native ID) listed once
Responses(rowset, maxrows) ==
    {[raises |-> TRUE, has_result |-> FALSE, result |-> <<>>],
     [raises |-> FALSE, has_result |-> FALSE, result |-> <<>>]}
    \cup {[raises |-> FALSE, has_result |-> TRUE, result |-> r] :
          r \in {q \in SeqsUpTo(rowset, maxrows) :
                   \A i, j \in 1..Len(q) :
                       q[i].native = q[j].native => i = j}}

\* the answers of the identifier service to the tokens: one item per token,
\* resolved (entrezgene as int or str, with or without symbol) or not
EntrezValues == {PyInt(1), PyInt(12), PyStr(<<"1">>)}
SymbolValues == {PyMissing} \cup {PyStr(x) : x \in Symbols}

ItemsFor(token) ==
    {[query |-> PyStr(token), entrezgene |-> PyMissing, symbol |-> PyMissing]}
    \cup {[query |-> PyStr(token), entrezgene |-> g, symbol |-> x] :
          g \in EntrezValues, x \in SymbolValues}

MygeneReplies(tokens) ==
    {[raises |-> TRUE, items |-> <<>>]}
    \cup {[raises |-> FALSE, items |-> it] :
          it \in {f \in [1..Len(tokens) -> UNION {ItemsFor(tokens[i]) : i \in 1..Len(tokens)}] :
                    \A i \in 1..Len(tokens) : f[i] \in ItemsFor(tokens[i])}}

\* Scenarios that vary the identifier service: "A", " A \n\nB" and " "
BridgeTexts ==
    {<<"A">>, <<" ", "A", " ", "\n", "\n", "B">>, <<" ">>}

BridgeRow == ServiceRow("KEGG:1", 1, PyList(<<Hit, Hit>>))

BridgeScenarios ==
    UNION {{[widgets |-> [DefaultWidgets EXCEPT !.raw_text_enrich = t],
             env |-> [mygene |-> m, gprofiler |-> g]] :
            m \in MygeneReplies(raw_gene_list(t)),
            g \in Responses({BridgeRow}, 1)} :
           t \in BridgeTexts}

\* Scenarios that vary the enrichment response and the override: the text
\* "A\nB" resolves to the identifiers 1 (label A) and 2 (label AB)
TableText == <<"A", "\n", "B">>

TableReply ==
    [raises |-> FALSE,
     items |-> <<[query |-> PyStr(<<"A">>), entrezgene |-> PyInt(1),
                  symbol |-> PyStr(<<"A">>)],
                 [query |-> PyStr(<<"B">>), entrezgene |-> PyStr(<<"2">>),
                  symbol |-> PyStr(<<"A", "B">>)]>>]

\* the override fields <<force_gene, force_pathway_id>>: left empty, half
\* filled, aimed at a row, aimed at no row
Overrides ==
    {<<<<>>, "">>, <<<<"A">>, "">>, <<<<>>, "KEGG:1">>, <<<<"A">>, "KEGG:1">>,
     <<<<"B">>, "KEGG:1">>, <<<<"A">>, "KEGG:9">>}

\* the Evidence Vector of a row: a list that is empty, hits the second
\* identifier of the query, or hits both (which identifier comes second is
\* the choice of line 150); or no list: null, absent, a str
TableCells ==
    {PyList(<<>>), PyList(<<<<>>, Hit>>), PyList(<<Hit, Hit>>)}

\* the rows of the response: under the native ID the override aims at,
\* every list at the smaller p_value, the full list and a str at the larger;
\* under the other, a list at either p_value (so that rows tie, or do not,
\* in p_value and in their hits), the empty list, null and absent; under a
\* third, a list at either p_value
TableRows ==
    {ServiceRow("KEGG:1", 1, c) : c \in TableCells}
    \cup {ServiceRow("KEGG:1", 2, c) : c \in {PyList(<<Hit, Hit>>), PyStr(<<"a">>)}}
    \cup {ServiceRow("KEGG:2", 1, PyList(<<<<>>, Hit>>))}
    \cup {ServiceRow("KEGG:2", 2, c) :
          c \in {PyList(<<Hit, Hit>>), PyList(<<>>), PyNone, PyMissing}}
    \cup {ServiceRow("KEGG:3", 1, PyList(<<Hit, Hit>>)),
          ServiceRow("KEGG:3", 2, PyList(<<<<>>, Hit>>))}

TableScenarios ==
    {[widgets |-> [DefaultWidgets EXCEPT !.raw_text_enrich = TableText,
                                         !.force_gene = o[1],
                                         !.force_pathway_id = o[2]],
      env |-> [mygene |-> TableReply, gprofiler |-> g]] :
     o \in Overrides,
     g \in Responses(TableRows, MaxRespRows)}

----------------------------------------------------------------------------
(* SpecRun: one click on "Run Analysis" in a fresh session, for every       *)
(* scenario, with any number of widget events while the script and its      *)
(* reruns run: on the checkbox of line 234 once it is drawn, or on a widget *)
(* whose value the script does not read after the click.                    *)

InitRun ==
    /\ \E sc \in BridgeScenarios \cup TableScenarios :
        /\ widgets = sc.widgets
        /\ env = sc.env
    /\ locals = NoLocals
    /\ message = MsgNone
    /\ session_state = NoSession
    /\ df_processed = [status |-> "hidden", rows |-> <<>>]
    /\ script = Idle
    /\ call = NoCall
    /\ ret = <<>>

RunOnce ==
    /\ ~locals.started
    /\ RunAnalysis(widgets, env)

\* the checkbox, or another widget, touched while the script runs
Touch ==
    \E use_simplify \in BOOLEAN :
        TouchWidget(use_simplify, widgets.sim_threshold)

Step ==
    \/ DeleteKeys
    \/ Spinner
    \/ AfterQuerymany
    \/ AfterPost
    \/ Toast
    \/ Store
    \/ Report
    \/ ShowResults
    \/ RenderResults

NextRun == RunOnce \/ Step \/ Touch

SpecRun == InitRun /\ [][NextRun]_vars


----------------------------------------------------------------------------
(* Spec: a session.  The user clicks "Run Analysis" again and again, with   *)
(* any text and override fields and any answers of the services, between    *)
(* script runs and while one runs, and moves the similarity widgets in      *)
(* between and while a script runs.                                         *)

SessionRowA == ServiceRow("KEGG:1", 1, PyList(<<Hit>>))
SessionRowB == ServiceRow("KEGG:2", 1, PyList(<<>>))
SessionRowC == ServiceRow("KEGG:2", 2, PyNone)
\* a second row with the Raw Hit Set of SessionRowA, which the reducer drops
SessionRowD == ServiceRow("KEGG:2", 2, PyList(<<Hit>>))

SessionReplies ==
    {[raises |-> TRUE, items |-> <<>>],
     [raises |-> FALSE,
      items |-> <<[query |-> PyStr(<<"A">>), entrezgene |-> PyMissing,
                   symbol |-> PyMissing]>>],
     [raises |-> FALSE,
      items |-> <<[query |-> PyStr(<<"A">>), entrezgene |-> PyInt(1),
                   symbol |-> PyStr(<<"A">>)]>>]}

SessionResponses ==
    {[raises |-> TRUE, has_result |-> FALSE, result |-> <<>>],
     [raises |-> FALSE, has_result |-> FALSE, result |-> <<>>],
     [raises |-> FALSE, has_result |-> TRUE, result |-> <<>>],
     [raises |-> FALSE, has_result |-> TRUE, result |-> <<SessionRowA>>],
     [raises |-> FALSE, has_result |-> TRUE,
      result |-> <<SessionRowB, SessionRowA>>],
     [raises |-> FALSE, has_result |-> TRUE,
      result |-> <<SessionRowA, SessionRowC>>],
     [raises |-> FALSE, has_result |-> TRUE,
      result |-> <<SessionRowA, SessionRowD>>]}

SessionScenarios ==
    {[widgets |-> DefaultWidgets, env |-> IdleEnv]}
    \cup {[widgets |-> [DefaultWidgets EXCEPT !.raw_text_enrich = <<"A">>,
                                              !.force_gene = fg,
                                              !.force_pathway_id = "KEGG:1"],
           env |-> [mygene |-> m, gprofiler |-> g]] :
          fg \in {<<>>, <<"A">>}, m \in SessionReplies, g \in SessionResponses}

Init ==
    /\ widgets = DefaultWidgets
    /\ env = IdleEnv
    /\ locals = NoLocals
    /\ message = MsgNone
    /\ session_state = NoSession
    /\ df_processed = [status |-> "hidden", rows |-> <<>>]
    /\ script = Idle
    /\ call = NoCall
    /\ ret = <<>>

Click == \E sc \in SessionScenarios : RunAnalysis(sc.widgets, sc.env)

\* the slider moved while the script runs
Slide ==
    \E sim_threshold \in SimThresholds :
        TouchWidget(widgets.use_simplify, sim_threshold)

MoveWidgets ==
    \E use_simplify \in BOOLEAN,
       sim_threshold \in SimThresholds \cup {widgets.sim_threshold} :
        Rerender(use_simplify, sim_threshold)

Next == Click \/ ClickAgain \/ Step \/ Touch \/ Slide \/ MoveWidgets

Spec == Init /\ [][Next]_vars

----------------------------------------------------------------------------
(* The helper functions called on their own, on every argument within the   *)
(* bounds.                                                                  *)

IdleApp ==
    /\ widgets = DefaultWidgets
    /\ env = IdleEnv
    /\ locals = NoLocals
    /\ message = MsgNone
    /\ session_state = NoSession
    /\ df_processed = [status |-> "hidden", rows |-> <<>>]
    /\ script = Idle

AppUnchanged ==
    UNCHANGED <<widgets, env, locals, message, session_state, df_processed,
                script>>

\* calculate_jaccard(list1, list2)
InitJaccard ==
    /\ IdleApp
    /\ call \in {[fn |-> "calculate_jaccard", args |-> <<list1, list2>>] :
                 list1 \in SeqsUpTo(Ids, MaxListLen),
                 list2 \in SeqsUpTo(Ids, MaxListLen)}
    /\ ret = <<>>

CallJaccard ==
    /\ call.fn = "calculate_jaccard"
    /\ ret = <<>>
    /\ ret' = <<calculate_jaccard(call.args[1], call.args[2])>>
    /\ UNCHANGED call
    /\ AppUnchanged

SpecJaccard == InitJaccard /\ [][CallJaccard]_vars

\* Raw Hit Sets as the decoder produces them over the universe 1, 2, 3:
\* {}, {1}, {2}, {1,2}, {1,2,3}, with similarities 0, 1/3, 1/2, 2/3 and 1
RawVectors ==
    {<<>>, <<Hit>>, <<<<>>, Hit>>, <<Hit, Hit>>, <<Hit, Hit, Hit>>}

RawLists ==
    {ids_loop(v, <<<<"1">>, <<"2">>, <<"3">>>>, 0, <<>>) : v \in RawVectors}

\* a decoded table of n rows, indexed 0..n-1
TablesOf(n) ==
    {[i \in 1..n |->
        [index |-> i - 1, native |-> "KEGG:1", p_value |-> f[i][1],
         intersection_size |-> Len(f[i][2]),
         intersections |-> PyStr(<<>>), hit_genes |-> <<>>,
         intersections_raw |-> f[i][2]]] :
     f \in [1..n -> PValues \X RawLists]}

\* simplify_results(df, threshold)
InitSimplify ==
    /\ IdleApp
    /\ call \in {[fn |-> "simplify_results", args |-> <<rows, <<threshold>>>>] :
                 rows \in UNION {TablesOf(n) : n \in 0..MaxTableRows},
                 threshold \in SimThresholds}
    /\ ret = <<>>

CallSimplify ==
    /\ call.fn = "simplify_results"
    /\ ret = <<>>
    /\ \E r \in simplify_results(call.args[1], call.args[2][1]) : ret' = <<r>>
    /\ UNCHANGED call
    /\ AppUnchanged

SpecSimplify == InitSimplify /\ [][CallSimplify]_vars

\* the universes: the duplicate-free lists of identifiers
Universes == {u \in SeqsUpTo(Ids, Cardinality(Ids)) : IsInjective(u)}

\* the label maps over a universe; in a run every identifier has a label,
\* here some may have none, which is the fallback of line 176
LabelMaps(u) == UNION {[S -> Symbols] : S \in SUBSET Range(u)}

VectorCells ==
    {PyNone, PyMissing, PyInt(1), PyStr(<<>>), PyStr(<<"a", "b">>)}
    \cup {PyList(v) : v \in SeqsUpTo(Marks, MaxVecLen)}

\* decode_intersections(inter_list) and get_entrez_ids_list(inter_list)
InitDecode ==
    /\ IdleApp
    /\ call \in UNION {{[fn |-> "decode", inter_list |-> c,
                         unique_converted_ids |-> u, entrez_to_symbol |-> m] :
                        c \in VectorCells, m \in LabelMaps(u)} :
                       u \in Universes}
    /\ ret = <<>>

CallDecode ==
    /\ call.fn = "decode"
    /\ ret = <<>>
    /\ ret' = <<[hit_genes |->
                    decode_intersections(call.inter_list,
                        call.unique_converted_ids, call.entrez_to_symbol),
                 intersections_raw |->
                    get_entrez_ids_list(call.inter_list,
                        call.unique_converted_ids)]>>
    /\ UNCHANGED call
    /\ AppUnchanged

SpecDecode == InitDecode /\ [][CallDecode]_vars


----------------------------------------------------------------------------
(* Vocabulary of the properties.                                            *)

\* the entries of a Label List "a; b; c", from position i on
RECURSIVE label_entries_from(_, _, _)
label_entries_from(hits, i, cur) ==
    IF i > Len(hits) THEN <<cur>>
    ELSE IF hits[i] = ";" /\ i < Len(hits) /\ hits[i + 1] = " "
    THEN <<cur>> \o label_entries_from(hits, i + 2, <<>>)
    ELSE label_entries_from(hits, i + 1, Append(cur, hits[i]))

LabelEntries(hits) ==
    IF hits = <<>> THEN <<>> ELSE label_entries_from(hits, 1, <<>>)

\* |a \cap b| / |a \cup b| > t / 100 for two sets, 0 when either is empty
SimilarityAbove(a, b, t) ==
    /\ a # {}
    /\ b # {}
    /\ Cardinality(a \cap b) * 100 > t * Cardinality(a \cup b)

SimilarityIs(a, b, t) ==
    /\ a # {}
    /\ b # {}
    /\ Cardinality(a \cap b) * 100 = t * Cardinality(a \cup b)

\* the k-th smallest element of a set of positions
KthOf(S, k) == CHOOSE i \in S : Cardinality({j \in S : j < i}) = k - 1

IndexSeq(rows) == [i \in 1..Len(rows) |-> rows[i].index]

RunDone == message = MsgDone
Stored == "raw_results" \in session_state.keys
\* the last run block has ended, by itself or stopped for a rerun
RunEnded == locals.started /\ ~script.run_block
\* the last run block has got past the test and the del of 'raw_results'
\* (the first two accesses of line 136)
BeforeDel == {"line136_in_raw", "line136_del_raw"}
Cleared ==
    /\ locals.started
    /\ script.pc \notin BeforeDel
    /\ script.stopped \notin BeforeDel
\* the last run block has left the identifier bridge (lines 140-150) behind
BridgeDone ==
    /\ Cleared
    /\ script.pc \notin {"line136_in_filtered", "line138", "line141"}
    /\ script.stopped \notin {"line136_in_filtered", "line138"}
\* the last run block has sent its request and handled the response (lines
\* 164-215)
PostDone == BridgeDone /\ locals.request # <<>> /\ script.pc # "line164"
\* the last run block has executed line 217
StoreDone ==
    /\ locals.started
    /\ script.pc = "line218" \/ script.stopped = "line218" \/ RunDone
StoredRows == session_state.raw_results.rows
StoredRow(idx) == CHOOSE r \in Range(StoredRows) : r.index = idx
Decoded == "hit_genes" \in session_state.raw_results.columns
OverrideActive == locals.force_gene # <<>> /\ locals.force_pathway_id # ""

\* the table of the last run after decoding (lines 200-201), before the
\* override
PreOverride ==
    decode_rows(DataFrame(env.gprofiler.result).rows,
                locals.unique_converted_ids, locals.entrez_to_symbol)

ResolvedItems ==
    {i \in 1..Len(env.mygene.items) :
        env.mygene.items[i].entrezgene.kind # "missing"}

----------------------------------------------------------------------------
(* C1 (SpecRun).  An override on a row whose Label List already holds the   *)
(* forced label as an entry leaves that row's hit_genes and                 *)
(* intersection_size as they were before the override, and applying the     *)
(* same override a second time changes neither column.  The code increments *)
(* intersection_size on every matched row (line 210), so this fails.        *)
C1_OverrideIdempotent ==
    (RunDone /\ Decoded /\ OverrideActive) =>
        /\ \A d \in Range(PreOverride) :
            (/\ d.native = locals.force_pathway_id
             /\ locals.force_gene \in Range(LabelEntries(d.hit_genes)))
            => /\ StoredRow(d.index).hit_genes = d.hit_genes
               /\ StoredRow(d.index).intersection_size = d.intersection_size
        /\ LET again == apply_override(StoredRows, locals.force_gene,
                                       locals.force_pathway_id)
           IN  \A i \in 1..Len(StoredRows) :
                /\ again[i].hit_genes = StoredRows[i].hit_genes
                /\ again[i].intersection_size = StoredRows[i].intersection_size

(* C2 (SpecRun).  When the service answers with result rows and some row's  *)
(* Evidence Vector is null or absent, a run that reports still completes:   *)
(* every row is in the stored table, and that row has an empty Label List,  *)
(* an empty Raw Hit Set and the intersection_size the service reported.     *)
(* get_entrez_ids_list has no isinstance guard (line 181), so the run ends  *)
(* in the except branch instead.                                            *)
C2_NullVectorRowSurvives ==
    LET result == env.gprofiler.result
    IN  (/\ message # MsgNone
         /\ locals.request # <<>>
         /\ ~env.gprofiler.raises
         /\ env.gprofiler.has_result)
        => \A i \in 1..Len(result) :
            (/\ result[i].intersections.kind \in {"None", "missing"}
             /\ ~(OverrideActive /\ result[i].native = locals.force_pathway_id))
            => /\ RunDone
               /\ Decoded
               /\ Len(StoredRows) = Len(result)
               /\ \E r \in Range(StoredRows) :
                    /\ r.index = i - 1
                    /\ r.hit_genes = <<>>
                    /\ r.intersections_raw = <<>>
                    /\ r.intersection_size = result[i].intersection_size

(* C3 (SpecRun).  An override on a matched row whose Label List does not    *)
(* hold the forced label as an entry appends the label and adds one to      *)
(* intersection_size.  append_gene tests `force_gene in current_hits` on    *)
(* the joined text (line 207), so a forced label that is part of a longer   *)
(* label is not appended.                                                   *)
C3_OverrideAppends ==
    (RunDone /\ Decoded /\ OverrideActive) =>
        \A d \in Range(PreOverride) :
            (/\ d.native = locals.force_pathway_id
             /\ locals.force_gene \notin Range(LabelEntries(d.hit_genes)))
            => /\ StoredRow(d.index).hit_genes =
                    (IF d.hit_genes = <<>> THEN locals.force_gene
                     ELSE d.hit_genes \o Sep \o locals.force_gene)
               /\ StoredRow(d.index).intersection_size = d.intersection_size + 1

(* C4 (SpecDecode).  For a universe U and an Evidence Vector V, with S the  *)
(* non-empty positions of V that U has: get_entrez_ids_list(V) is U at the  *)
(* positions of S in index order, and decode_intersections(V) joins their   *)
(* labels, entrez_to_symbol[U[i]] or U[i] when there is none: |S| labels.   *)
(* Positions of V beyond U, and of U beyond V, are not hits.                *)
C4_DecodeAlignment ==
    (ret # <<>> /\ call.inter_list.kind = "list") =>
        LET U == call.unique_converted_ids
            V == call.inter_list.l
            labels == call.entrez_to_symbol
            S == {i \in 1..Len(V) : V[i] # <<>> /\ i <= Len(U)}
            hits == [k \in 1..Cardinality(S) |-> U[KthOf(S, k)]]
            LabelOf(id) == IF id \in DOMAIN labels THEN labels[id] ELSE id
        IN  /\ ret[1].intersections_raw = [raised |-> FALSE, v |-> hits]
            /\ ret[1].hit_genes =
                   Join(Sep, [k \in 1..Len(hits) |-> LabelOf(hits[k])])
            /\ Len(LabelEntries(ret[1].hit_genes)) = Cardinality(S)

C4_Witness ==
    /\ ret # <<>>
    /\ call.inter_list.kind = "list"
    /\ Len(call.inter_list.l) > Len(call.unique_converted_ids)
    /\ call.inter_list.l[Len(call.inter_list.l)] # <<>>
    /\ Len(ret[1].intersections_raw.v) = 2
    /\ ret[1].intersections_raw.v[1] \notin DOMAIN call.entrez_to_symbol
    /\ ret[1].intersections_raw.v[2] \in DOMAIN call.entrez_to_symbol

(* C5 (SpecSimplify).  The rows simplify_results returns are those a greedy *)
(* walk keeps: in some ascending p-value order of the input, a row is       *)
(* dropped exactly when its similarity with a row kept before it is         *)
(* strictly above the threshold.  So no two kept rows are more similar than *)
(* the threshold, and at threshold 1.0 every row is kept.                   *)
C5_GreedyReducer ==
    ret # <<>> =>
        LET rows == call.args[1]
            t == call.args[2][1]
            kept == ret[1]
            keptIdx == {kept[i].index : i \in 1..Len(kept)}
            Raw(r) == Range(r.intersections_raw)
        IN  /\ \E sorted \in sort_values(rows) :
                /\ kept = SelectSeq(sorted, LAMBDA r : r.index \in keptIdx)
                /\ \A i \in 1..Len(sorted) :
                    (sorted[i].index \notin keptIdx)
                    <=> \E j \in 1..(i - 1) :
                            /\ sorted[j].index \in keptIdx
                            /\ SimilarityAbove(Raw(sorted[i]), Raw(sorted[j]), t)
            /\ \A i, j \in 1..Len(kept) :
                i # j => ~SimilarityAbove(Raw(kept[i]), Raw(kept[j]), t)
            /\ t = 100 => Len(kept) = Len(rows)

C5_Witness ==
    /\ ret # <<>>
    /\ Len(ret[1]) = 2
    /\ Len(call.args[1]) = 3
    /\ SimilarityIs(Range(ret[1][1].intersections_raw),
                    Range(ret[1][2].intersections_raw), call.args[2][1])

(* C6 (SpecSimplify).  The rows simplify_results returns are a subsequence  *)
(* of the input sorted ascending by p_value: rows of the input, each at     *)
(* most once and unaltered, in non-decreasing p_value order, and the first  *)
(* of them has the smallest p_value of the input.                           *)
C6_SortedSubsequence ==
    ret # <<>> =>
        LET rows == call.args[1]
            kept == ret[1]
        IN  /\ \E sorted \in sort_values(rows) :
                kept = SelectSeq(sorted, LAMBDA r : r \in Range(kept))
            /\ \A i, j \in 1..Len(kept) :
                i < j => kept[i].p_value <= kept[j].p_value
            /\ \A i \in 1..Len(kept) : kept[i] \in Range(rows)
            /\ \A i, j \in 1..Len(kept) : kept[i].index = kept[j].index => i = j
            /\ rows # <<>> =>
                /\ kept # <<>>
                /\ \A i \in 1..Len(rows) : kept[1].p_value <= rows[i].p_value

C6_Witness ==
    /\ ret # <<>>
    /\ Len(call.args[1]) = 3
    /\ call.args[1][1].p_value > call.args[1][3].p_value
    /\ Len(ret[1]) = 2
    /\ ret[1][1].p_value < ret[1][2].p_value

(* C7 (SpecJaccard).  calculate_jaccard never divides by zero; it is 0.0    *)
(* when either argument is empty, and otherwise |A \cap B| / |A \cup B| on  *)
(* the sets of distinct elements; it is 1.0 exactly when the two sets are   *)
(* equal and not empty; jaccard({1,2},{2,3}) = 1/3.                         *)
C7_Jaccard ==
    ret # <<>> =>
        LET A == {x \in Ids : \E i \in 1..Len(call.args[1]) : call.args[1][i] = x}
            B == {x \in Ids : \E i \in 1..Len(call.args[2]) : call.args[2][i] = x}
            sim == ret[1]
        IN  /\ sim.den # 0
            /\ (A = {} \/ B = {}) => sim.num = 0
            /\ (A # {} /\ B # {}) =>
                sim.num * Cardinality(A \cup B) = Cardinality(A \cap B) * sim.den
            /\ (sim.num = sim.den) <=> (A = B /\ A # {})
            /\ (A = {<<"1">>, <<"2">>} /\ B = {<<"2">>, <<"3">>}) =>
                sim.num * 3 = sim.den

C7_Witness ==
    /\ ret # <<>>
    /\ call.args[1] = <<<<"1">>, <<"2">>, <<"1">>>>
    /\ call.args[2] = <<<<"3">>, <<"2">>>>
    /\ ret[1].num * 3 = ret[1].den

(* Vocabulary of C8.                                                        *)

\* the table line 217 gets from the last run when no override is applied:
\* decoded (lines 200-201) and finished (line 215), or, when the response
\* has no 'intersections' key at all, as line 168 built it
PlainRows ==
    IF Decoded THEN show_hits(PreOverride)
    ELSE DataFrame(env.gprofiler.result).rows

\* two rows agree in every column but those of cols
AgreeOutside(r, d, cols) ==
    /\ DOMAIN r = DOMAIN d
    /\ \A c \in (DOMAIN d) \ cols : r[c] = d[c]

\* line 201 raises on the response of the last run
DecodeFails ==
    LET results == DataFrame(env.gprofiler.result)
    IN  /\ "intersections" \in results.columns
        /\ decode_raises(results.rows, locals.unique_converted_ids)

\* The frame of the override when it may write the columns of `written` on
\* the rows whose native ID is the target, and nothing else.  The stored
\* table is compared with PlainRows: every row is there under its index and
\* agrees with the plain row outside `written`; a row that does not match
\* the target is the plain row; when no row matches, the table is the plain
\* table; the reducer keeps the rows of the same indices, in the same
\* orders, at every threshold.  (The reducer is evaluated where the two
\* tables differ: it is a function of the set of rows.)  And the override
\* raises nothing: a run whose response has rows that decode ends in the
\* handler of line 222 for no override.
OverrideFrame(written) ==
    /\ Stored =>
        /\ Len(StoredRows) = Len(PlainRows)
        /\ \A d \in Range(PlainRows) :
            \E r \in Range(StoredRows) :
                /\ r.index = d.index
                /\ AgreeOutside(r, d, written)
                /\ d.native # locals.force_pathway_id => r = d
        /\ (\A d \in Range(PlainRows) : d.native # locals.force_pathway_id)
            => Range(StoredRows) = Range(PlainRows)
        /\ Range(StoredRows) # Range(PlainRows) =>
            \A t \in SimThresholds :
                {IndexSeq(k) : k \in simplify_results(StoredRows, t)}
                = {IndexSeq(k) : k \in simplify_results(PlainRows, t)}
    /\ (/\ PostDone
        /\ ~env.gprofiler.raises
        /\ env.gprofiler.has_result
        /\ env.gprofiler.result # <<>>
        /\ ~DecodeFails)
       => /\ script.pc # "line223"
          /\ script.stopped # "line223"
          /\ message # MsgError

(* C8 (SpecRun), as the claim has it.  The override changes only hit_genes  *)
(* and intersection_size of the rows whose native ID is the target; every   *)
(* other row, and on every row the Raw Hit Set and all other columns, are   *)
(* as without the override; when no row matches, the whole table is         *)
(* unchanged and nothing is raised; the reducer keeps the same rows.  This  *)
(* fails on the 'intersections' column of the stored table: line 215        *)
(* overwrites it with hit_genes, so on a matched row it carries the forced  *)
(* label.                                                                   *)
C8_OnlyLabelsAndCount ==
    OverrideFrame({"hit_genes", "intersection_size"})

(* C8 (SpecRun), amended.  The override changes only hit_genes, the copy of *)
(* hit_genes that line 215 stores as 'intersections', and                   *)
(* intersection_size, of the rows whose native ID is the target; every      *)
(* other row, and on every row the Raw Hit Set and all other columns, are   *)
(* as without the override; when no row matches, the whole table is         *)
(* unchanged and nothing is raised; the reducer keeps the same rows.        *)
C8_OverrideFrame ==
    OverrideFrame({"hit_genes", "intersection_size", "intersections"})

\* a stored table with a matched row that got the forced label and a row of
\* another native ID with labels of its own
C8_Witness ==
    /\ RunDone
    /\ Decoded
    /\ OverrideActive
    /\ \E d1, d2 \in Range(PreOverride) :
        /\ d1.native = locals.force_pathway_id
        /\ d2.native # locals.force_pathway_id
        /\ StoredRow(d1.index).hit_genes # d1.hit_genes
        /\ StoredRow(d1.index).intersection_size = d1.intersection_size + 1
        /\ d2.hit_genes # <<>>

(* Vocabulary of C9.                                                        *)

\* a request that was sent carries a non-empty, duplicate-free list of
\* exactly the resolved identifiers, each a key of entrez_to_symbol
QueryIsUniverse ==
    locals.request # <<>> =>
        LET query == locals.request[1]
        IN  /\ query # <<>>
            /\ IsInjective(query)
            /\ Range(query) =
                 {str(env.mygene.items[i].entrezgene) : i \in ResolvedItems}
            /\ Range(query) \subseteq DOMAIN locals.entrez_to_symbol

\* the identifier service has answered the last run, and no item of the
\* answer carries an identifier
NoneResolved == BridgeDone /\ ~env.mygene.raises /\ ResolvedItems = {}

(* C9 (SpecRun), as the claim has it.  A run whose tokens resolve to no     *)
(* identifier has, once it has ended, reported "No valid IDs identified."   *)
(* and sent no request; a request that is sent carries a non-empty,         *)
(* duplicate-free list of exactly the resolved identifiers, each a key of   *)
(* entrez_to_symbol.  This fails when a widget event arrives before line    *)
(* 153: the script is stopped at that st.error call and reports nothing.    *)
C9_ReportsNoValidIds ==
    /\ (RunEnded /\ NoneResolved)
        => /\ message = MsgNoIds
           /\ locals.request = <<>>
    /\ QueryIsUniverse

(* C9 (SpecRun), amended.  A run whose tokens resolve to no identifier      *)
(* sends no request and comes to line 153, and nowhere else; there it       *)
(* reports "No valid IDs identified.", unless a rerun is pending, which     *)
(* stops the script at that call: then, and only then, it reports nothing.  *)
(* That message is reported by no other run.  A request that is sent        *)
(* carries a non-empty, duplicate-free list of exactly the resolved         *)
(* identifiers, each a key of entrez_to_symbol.                             *)
C9_BridgeAndQuery ==
    /\ NoneResolved
        => /\ locals.request = <<>>
           /\ script.pc \in {"line153", "line225", "idle"}
           /\ script.stopped \in {NoStop, "line153"}
           /\ (script.pc = "line153" \/ script.stopped = "line153")
                => message = MsgNone
           /\ (script.pc # "line153" /\ script.stopped # "line153")
                => message = MsgNoIds
    /\ message = MsgNoIds => NoneResolved
    /\ QueryIsUniverse

\* a run of two tokens, neither resolved, that ended with the message of
\* line 153 and sent nothing
C9_Witness ==
    /\ RunEnded
    /\ script.pc = "idle"
    /\ script.stopped = NoStop
    /\ Len(locals.raw_gene_list) = 2
    /\ Len(env.mygene.items) = 2
    /\ ResolvedItems = {}
    /\ message = MsgNoIds
    /\ locals.request = <<>>

(* Vocabulary of C10.                                                       *)

MsgFailed == {MsgNoIds, MsgNoPathways, MsgError}

\* the stored table is what the last run block assembled from its non-empty
\* response without an exception, in non-decreasing p_value order
StoredByLastRun ==
    /\ locals.request # <<>>
    /\ ~env.gprofiler.raises
    /\ env.gprofiler.has_result
    /\ env.gprofiler.result # <<>>
    /\ IsSortedByP(StoredRows)
    /\ LET a == assemble(env.gprofiler.result, locals.unique_converted_ids,
                         locals.entrez_to_symbol, locals.force_gene,
                         locals.force_pathway_id)
       IN  /\ ~a.raised
           /\ session_state.raw_results.columns = a.df.columns
           /\ Len(StoredRows) = Len(a.df.rows)
           /\ Range(StoredRows) = Range(a.df.rows)

(* C10 (Spec), as the claim has it.  Once the script has ended, a table is  *)
(* stored under 'raw_results' only if the most recent run block completed:  *)
(* it executed line 217 (the weakest reading: whether or not it went on    *)
(* to report "Analysis Done."), and the table is that run's, in             *)
(* non-decreasing p_value order; after a run that reported no identifiers,  *)
(* no pathways or an exception nothing is stored; what is not stored is     *)
(* not shown.  This fails when an event arrives between the click and the  *)
(* del of line 136: the run block is stopped at the test or at the del,     *)
(* before the key is deleted, and the table of an earlier run stays stored  *)
(* and shown.                                                               *)
C10_CacheOnlyAfterSuccess ==
    /\ (RunEnded /\ Stored) => (StoreDone /\ StoredByLastRun)
    /\ message \in MsgFailed => ~Stored
    /\ (RunEnded /\ script.pc = "idle" /\ ~Stored)
           => df_processed.status = "hidden"

(* C10 (Spec), amended.  The stored table is the one left by the most       *)
(* recent run block that got past the test and the del of 'raw_results' at  *)
(* line 136.  Before the first run block nothing is stored.  Once a run     *)
(* block has got past them, a table is stored exactly if that run went on   *)
(* to execute line 217, and it is then that run's table, in non-decreasing  *)
(* p_value order; after a run that reported no identifiers, no pathways or  *)
(* an exception nothing is stored; once the script has ended, what is not   *)
(* stored is not shown.  As long as the most recent run block has not got   *)
(* past them (it is about to, or was stopped at one of them), no step       *)
(* changes what is stored.                                                  *)
C10_CacheOfLastClearedRun ==
    /\ [](/\ ~locals.started => ~Stored
          /\ Cleared => (Stored <=> StoreDone)
          /\ (Cleared /\ Stored) => StoredByLastRun
          /\ message \in MsgFailed => ~Stored
          /\ (script.pc = "idle" /\ ~Stored) => df_processed.status = "hidden")
    /\ [][~Cleared' => session_state' = session_state]_vars

\* a run that found a stored table and deleted it (line 136), sent its
\* request and ended in the handler of line 222: the table of the earlier
\* run is gone
C10_Witness ==
    /\ script.pc = "idle"
    /\ script.stopped = NoStop
    /\ message = MsgError
    /\ locals.deleted
    /\ locals.request # <<>>
    /\ ~Stored
    /\ df_processed.status = "hidden"

============================================================================
